---- MODULE Spec2Model ----
(***************************************************************************)
(* A model of git-tracker:                                                 *)
(*   - generate_svg.py: fetch of the contribution calendar, the streak     *)
(*     calculation (calculate_streak_ending_on_date, find_longest_streak   *)
(*     and the module-level current-streak code) and the rendering step;   *)
(*   - setup_webhooks.py: the webhook registration loop.                   *)
(* Calendar dates are integers (day ordinals); date - timedelta(days=1)    *)
(* is d - 1.  A dict is a function whose DOMAIN is its set of keys.        *)
(***************************************************************************)
EXTENDS Integers, Sequences, FiniteSets, TLC

\* ------------------------------------------------------------- bounds
\* Dates that may occur in a fetched calendar are 0..MaxDay.
MaxDay == 6
\* Contribution counts of a day are 0..MaxCount.
MaxCount == 1
\* The reported totalContributions is 0..MaxTotal.
MaxTotal == 1

\* Python's None, for an optional date.
None == -1

Dates == 0..MaxDay
Counts == 0..MaxCount
\* Reference dates: one day before the last calendar date up to two days
\* after it (today and yesterday both outside the calendar).
TodaySet == (MaxDay - 1)..(MaxDay + 2)

\* The empty dict {}.
EmptyDict == << >>

\* Every dict date -> count over the calendar dates (a date may be absent).
SeriesSet == UNION {[D -> Counts] : D \in SUBSET Dates}

\* ------------------------------------------------------------- dict
\* dict.get(key, default): the value read.
dict_get(d, key, default) == IF key \in DOMAIN d THEN d[key] ELSE default

\* A lookup that inserts the default for an absent key (dict.setdefault,
\* or a defaultdict subscript), unlike dict.get.
dict_after_setdefault(d, key, default) ==
  IF key \in DOMAIN d THEN d ELSE [k \in DOMAIN d \cup {key} |-> IF k = key THEN default ELSE d[k]]

\* dict.get(key, default): the dict after the lookup (no insertion).
dict_after_get(d, key, default) == d

\* d[key] = value
dict_set(d, key, value) ==
  [k \in DOMAIN d \cup {key} |-> IF k = key THEN value ELSE d[k]]

Min(S) == CHOOSE x \in S : \A y \in S : x <= y
Max(S) == CHOOSE x \in S : \A y \in S : x >= y

\* sorted(S) for a set of dates, ascending.
RECURSIVE sorted(_)
sorted(S) == IF S = {} THEN << >> ELSE << Min(S) >> \o sorted(S \ {Min(S)})

\* --------------------------------------- calculate_streak_ending_on_date
\* The while loop: the state is (streak, current_date, contributions_data).
RECURSIVE streak_loop(_, _, _)
streak_loop(data, current_date, streak) ==
  IF dict_get(data, current_date, 0) > 0
    THEN streak_loop(dict_after_get(data, current_date, 0), current_date - 1, streak + 1)
    ELSE [streak |-> streak, data |-> dict_after_get(data, current_date, 0)]

\* A loop that tests > 1 instead of > 0.
RECURSIVE streak_loop_gt1(_, _, _)
streak_loop_gt1(data, current_date, streak) ==
  IF dict_get(data, current_date, 0) > 1
    THEN streak_loop_gt1(data, current_date - 1, streak + 1)
    ELSE [streak |-> streak, data |-> data]

\* A loop that counts the day on which it stops as well.
calculate_streak_off_by_one(data, end_date) ==
  streak_loop(data, end_date, 0).streak + 1

calculate_streak_gt1(data, end_date) ==
  streak_loop_gt1(data, end_date, 0).streak

\* The value returned.
calculate_streak_ending_on_date(data, end_date) ==
  streak_loop(data, end_date, 0).streak

\* The argument dict after the call.
calculate_streak_data_after(data, end_date) ==
  streak_loop(data, end_date, 0).data

\* --------------------------------------------------- find_longest_streak
\* dates_with_contributions
dates_with_contributions(data) == sorted({d \in DOMAIN data : data[d] > 0})

\* The comparison that replaces the best-so-far, with >= for >.
is_longer_or_equal(current_streak, longest_streak) == current_streak >= longest_streak

\* The comparison that replaces the best-so-far.
is_longer(current_streak, longest_streak) == current_streak > longest_streak

\* One iteration of the for loop, on dates[i] (1-based), from state st.
longest_step(dates, i, st) ==
  IF i = 1
    THEN [st EXCEPT !.current_streak = 1, !.current_streak_start = dates[i]]
    ELSE LET prev_date == dates[i - 1] IN
      IF dates[i] = prev_date + 1
        THEN [st EXCEPT !.current_streak = st.current_streak + 1]
        ELSE LET closed ==
                   IF is_longer(st.current_streak, st.longest_streak)
                     THEN [st EXCEPT !.longest_streak = st.current_streak,
                                     !.longest_start = st.current_streak_start,
                                     !.longest_end = prev_date]
                     ELSE st
             IN [closed EXCEPT !.current_streak = 1, !.current_streak_start = dates[i]]

RECURSIVE longest_loop(_, _, _)
longest_loop(dates, i, st) ==
  IF i > Len(dates) THEN st ELSE longest_loop(dates, i + 1, longest_step(dates, i, st))

\* The close-out after the loop.
longest_close_out(dates, st) ==
  IF is_longer(st.current_streak, st.longest_streak)
    THEN [length |-> st.current_streak, start |-> st.current_streak_start,
          end |-> dates[Len(dates)]]
    ELSE [length |-> st.longest_streak, start |-> st.longest_start, end |-> st.longest_end]

\* find_longest_streak without the close-out after the loop.
find_longest_streak_no_close_out(data) ==
  LET dates == dates_with_contributions(data)
      st == longest_loop(dates, 1, [longest_streak |-> 0, longest_start |-> None,
                                    longest_end |-> None, current_streak |-> 0,
                                    current_streak_start |-> None])
  IN IF dates = << >>
       THEN [length |-> 0, start |-> None, end |-> None]
       ELSE [length |-> st.longest_streak, start |-> st.longest_start, end |-> st.longest_end]

\* The triple returned: (longest_streak, longest_start, longest_end).
find_longest_streak(data) ==
  LET dates == dates_with_contributions(data) IN
  IF dates = << >>
    THEN [length |-> 0, start |-> None, end |-> None]
    ELSE longest_close_out(dates,
           longest_loop(dates, 1, [longest_streak |-> 0, longest_start |-> None,
                                   longest_end |-> None, current_streak |-> 0,
                                   current_streak_start |-> None]))

\* ------------------------------------------- current streak (module level)
\* anchor - timedelta(days=length), one day too early.
streak_start_date_early(anchor, length) == anchor - length

\* anchor - timedelta(days=current_streak_calc - 1)
streak_start_date(anchor, length) == anchor - (length - 1)

\* The current streak with no grace day: only today can anchor it.
current_streak_no_grace(data, today_date) ==
  IF dict_get(data, today_date, 0) > 0
    THEN LET n == calculate_streak_ending_on_date(data, today_date) IN
         [length |-> n, start |-> streak_start_date(today_date, n), end |-> today_date]
    ELSE [length |-> 0, start |-> None, end |-> None]

\* (current_streak_calc, current_streak_start_date, current_streak_end_date)
current_streak(data, today_date) ==
  LET yesterday == today_date - 1 IN
  IF dict_get(data, today_date, 0) > 0
    THEN LET n == calculate_streak_ending_on_date(data, today_date) IN
         [length |-> n, start |-> streak_start_date(today_date, n), end |-> today_date]
    ELSE IF dict_get(data, yesterday, 0) > 0
      THEN LET n == calculate_streak_ending_on_date(data, yesterday) IN
           [length |-> n, start |-> streak_start_date(yesterday, n), end |-> yesterday]
      ELSE [length |-> 0, start |-> None, end |-> None]

\* daily_contributions after the current-streak code has run.
current_streak_data_after(data, today_date) ==
  LET yesterday == today_date - 1
      d1 == dict_after_get(data, today_date, 0)
  IN IF dict_get(data, today_date, 0) > 0
       THEN calculate_streak_data_after(d1, today_date)
       ELSE LET d2 == dict_after_get(d1, yesterday, 0) IN
            IF dict_get(d1, yesterday, 0) > 0
              THEN calculate_streak_data_after(d2, yesterday)
              ELSE d2

\* =========================================================================
\* generate_svg.py as a run of the script
\* =========================================================================
VARIABLES
  pc,                          \* "fetch", "calculate", "render", "done", "exit"
  clock,                       \* what datetime.date.today() returns during the run
  response,                    \* what the GraphQL request came to
  handler,                     \* the branch of the try statement that ran
  exit_code,                   \* the argument of exit(), None while running
  total_contributions,
  daily_contributions,
  contribution_data_start_date,
  contribution_data_end_date,
  today,
  current_streak_calc,
  current_streak_start_date,
  current_streak_end_date,
  longest_streak_calc,
  longest_streak_start,
  longest_streak_end,
  current_streak_range_str,
  longest_streak_range_str,
  total_contributions_range_str,
  files                        \* names of the SVG files written

svgVars == << pc, clock, response, handler, exit_code, total_contributions,
              daily_contributions, contribution_data_start_date,
              contribution_data_end_date, today, current_streak_calc,
              current_streak_start_date, current_streak_end_date,
              longest_streak_calc, longest_streak_start, longest_streak_end,
              current_streak_range_str, longest_streak_range_str,
              total_contributions_range_str, files >>

\* What can become of the request and its response.
Responses == {"connection_error", "http_error", "invalid_json", "graphql_errors",
              "malformed", "ok"}

\* The state at line 50, before the try statement.
SvgInit ==
  /\ pc = "fetch"
  /\ clock \in TodaySet
  /\ response = "none"
  /\ handler = "none"
  /\ exit_code = None
  /\ total_contributions = 0
  /\ daily_contributions = EmptyDict
  /\ contribution_data_start_date = None
  /\ contribution_data_end_date = None
  /\ today = None
  /\ current_streak_calc = 0
  /\ current_streak_start_date = None
  /\ current_streak_end_date = None
  /\ longest_streak_calc = 0
  /\ longest_streak_start = None
  /\ longest_streak_end = None
  /\ current_streak_range_str = [text |-> "N/A", from |-> None, to |-> None]
  /\ longest_streak_range_str = [text |-> "N/A", from |-> None, to |-> None]
  /\ total_contributions_range_str = [text |-> "N/A", from |-> None, to |-> None]
  /\ files = {}

\* The script has not run: the state of a specification about something else.
SvgIdle ==
  /\ pc = "idle"
  /\ clock = None
  /\ response = "none"
  /\ handler = "none"
  /\ exit_code = None
  /\ total_contributions = 0
  /\ daily_contributions = EmptyDict
  /\ contribution_data_start_date = None
  /\ contribution_data_end_date = None
  /\ today = None
  /\ current_streak_calc = 0
  /\ current_streak_start_date = None
  /\ current_streak_end_date = None
  /\ longest_streak_calc = 0
  /\ longest_streak_start = None
  /\ longest_streak_end = None
  /\ current_streak_range_str = [text |-> "N/A", from |-> None, to |-> None]
  /\ longest_streak_range_str = [text |-> "N/A", from |-> None, to |-> None]
  /\ total_contributions_range_str = [text |-> "N/A", from |-> None, to |-> None]
  /\ files = {}

calcVars == << today, current_streak_calc, current_streak_start_date,
               current_streak_end_date, longest_streak_calc, longest_streak_start,
               longest_streak_end >>
strVars == << current_streak_range_str, longest_streak_range_str,
              total_contributions_range_str >>

\* The handler "except Exception" that keeps what the try block had stored in
\* daily_contributions before it raised.
exception_fallback_keeps_partial(partial_total, partial_daily, now) ==
  [total |-> 0, daily |-> partial_daily, start |-> now - 364, end |-> now]

\* The handler "except Exception": the fallback values.
exception_fallback(partial_total, partial_daily, now) ==
  [total |-> 0, daily |-> EmptyDict, start |-> now - 364, end |-> now]

\* The branch "if 'errors' in data".
graphql_errors_branch == [total |-> 0, daily |-> EmptyDict, start |-> None, end |-> None]

\* The else branch run to its end: extraction of the calendar.
extract_calendar(resp_total, resp_daily, now) ==
  [total |-> resp_total, daily |-> resp_daily,
   start |-> IF DOMAIN resp_daily # {} THEN Min(DOMAIN resp_daily) ELSE now - 364,
   end |-> IF DOMAIN resp_daily # {} THEN Max(DOMAIN resp_daily) ELSE now]

\* requests.post / raise_for_status raise a RequestException: exit(1).
FetchRequestException(r) ==
  /\ pc = "fetch"
  /\ r \in {"connection_error", "http_error", "invalid_json"}
  /\ response' = r
  /\ handler' = "RequestException"
  /\ exit_code' = 1
  /\ pc' = "exit"
  /\ UNCHANGED << clock, total_contributions, daily_contributions,
                  contribution_data_start_date, contribution_data_end_date,
                  calcVars, strVars, files >>

SvgStore(v) ==
  /\ total_contributions' = v.total
  /\ daily_contributions' = v.daily
  /\ contribution_data_start_date' = v.start
  /\ contribution_data_end_date' = v.end

\* The response carries "errors".
FetchGraphqlErrors ==
  /\ pc = "fetch"
  /\ response' = "graphql_errors"
  /\ handler' = "errors"
  /\ SvgStore(graphql_errors_branch)
  /\ pc' = "calculate"
  /\ UNCHANGED << clock, exit_code, calcVars, strVars, files >>

\* res.json() or the extraction raises something that is no RequestException,
\* after the try block stored partial_total and partial_daily.
FetchException(r, partial_total, partial_daily) ==
  /\ pc = "fetch"
  /\ r \in {"invalid_json", "malformed"}
  /\ r = "invalid_json" => partial_total = 0 /\ partial_daily = EmptyDict
  /\ response' = r
  /\ handler' = "Exception"
  /\ SvgStore(exception_fallback(partial_total, partial_daily, clock))
  /\ pc' = "calculate"
  /\ UNCHANGED << clock, exit_code, calcVars, strVars, files >>

\* The calendar is extracted.
FetchOk(resp_total, resp_daily) ==
  /\ pc = "fetch"
  /\ response' = "ok"
  /\ handler' = "else"
  /\ SvgStore(extract_calendar(resp_total, resp_daily, clock))
  /\ pc' = "calculate"
  /\ UNCHANGED << clock, exit_code, calcVars, strVars, files >>

\* Lines 141-158.
Calculate ==
  /\ pc = "calculate"
  /\ today' = clock
  /\ LET cur == current_streak(daily_contributions, clock)
         lng == find_longest_streak(current_streak_data_after(daily_contributions, clock))
     IN /\ current_streak_calc' = cur.length
        /\ current_streak_start_date' = cur.start
        /\ current_streak_end_date' = cur.end
        /\ longest_streak_calc' = lng.length
        /\ longest_streak_start' = lng.start
        /\ longest_streak_end' = lng.end
  /\ daily_contributions' = current_streak_data_after(daily_contributions, clock)
  /\ pc' = "render"
  /\ UNCHANGED << clock, response, handler, exit_code, total_contributions,
                  contribution_data_start_date, contribution_data_end_date,
                  strVars, files >>

\* strftime('%b %d, %Y') of one date, or of two joined by " - ".
date_range_str(start, end) ==
  IF start = end THEN [text |-> "date", from |-> start, to |-> start]
                 ELSE [text |-> "range", from |-> start, to |-> end]

plain_str(t) == [text |-> t, from |-> None, to |-> None]

\* Lines 164-192.
format_total_range ==
  IF contribution_data_start_date # None /\ contribution_data_end_date # None
    THEN date_range_str(contribution_data_start_date, contribution_data_end_date)
    ELSE IF total_contributions = 0 THEN plain_str("No contributions yet")
                                    ELSE plain_str("N/A")

format_current_range ==
  IF current_streak_calc > 0 /\ current_streak_start_date # None
       /\ current_streak_end_date # None
    THEN date_range_str(current_streak_start_date, current_streak_end_date)
    ELSE IF total_contributions = 0 THEN plain_str("No contributions yet")
                                    ELSE plain_str("No active streak")

format_longest_range ==
  IF longest_streak_calc > 0 /\ longest_streak_start # None /\ longest_streak_end # None
    THEN date_range_str(longest_streak_start, longest_streak_end)
    ELSE IF total_contributions = 0 THEN plain_str("No contributions yet")
                                    ELSE plain_str("N/A")

themes == {"light", "dark"}

\* Lines 161-311: the date strings, then one SVG file per theme.
Render ==
  /\ pc = "render"
  /\ total_contributions_range_str' = format_total_range
  /\ current_streak_range_str' = format_current_range
  /\ longest_streak_range_str' = format_longest_range
  /\ files' = {"tracker-" \o t \o ".svg" : t \in themes}
  /\ pc' = "done"
  /\ UNCHANGED << clock, response, handler, exit_code, total_contributions,
                  daily_contributions, contribution_data_start_date,
                  contribution_data_end_date, calcVars >>

\* =========================================================================
\* The streak operations called on their own
\* =========================================================================
VARIABLES
  h_pc,              \* "start", "streak", "streak2", "longest", "longest2", "extended"
  series,            \* the dict the operations are called on
  series0,           \* the dict as it was constructed
  ref_date,          \* the reference date (today; the end_date of the streak call)
  streak_results,    \* what calculate_streak_ending_on_date returned, call by call
  longest_results,   \* what find_longest_streak returned, call by call
  ext_date,          \* the date that was given a positive count, or None
  before,            \* the results on the series before the extension
  after              \* the results on the extended series

harnessVars == << h_pc, series, series0, ref_date, streak_results, longest_results,
                  ext_date, before, after >>

NoResults == [streak |-> 0, longest |-> 0, current |-> 0]

HarnessInit ==
  /\ h_pc = "start"
  /\ series \in SeriesSet
  /\ series0 = series
  /\ ref_date \in TodaySet
  /\ streak_results = << >>
  /\ longest_results = << >>
  /\ ext_date = None
  /\ before = NoResults
  /\ after = NoResults

HarnessIdle ==
  /\ h_pc = "idle"
  /\ series = EmptyDict
  /\ series0 = EmptyDict
  /\ ref_date = None
  /\ streak_results = << >>
  /\ longest_results = << >>
  /\ ext_date = None
  /\ before = NoResults
  /\ after = NoResults

\* calculate_streak_ending_on_date(series, ref_date), a first and a second time.
CallStreak ==
  /\ h_pc \in {"start", "streak"}
  /\ streak_results' = Append(streak_results, calculate_streak_ending_on_date(series, ref_date))
  /\ series' = calculate_streak_data_after(series, ref_date)
  /\ h_pc' = IF h_pc = "start" THEN "streak" ELSE "streak2"
  /\ UNCHANGED << series0, ref_date, longest_results, ext_date, before, after >>

\* find_longest_streak(series), a first and a second time; it only reads its argument.
CallLongest ==
  /\ h_pc \in {"streak2", "longest"}
  /\ longest_results' = Append(longest_results, find_longest_streak(series))
  /\ h_pc' = IF h_pc = "streak2" THEN "longest" ELSE "longest2"
  /\ UNCHANGED << series, series0, ref_date, streak_results, ext_date, before, after >>

\* What the three computations return on one series.
results_on(data, end_date, today_date) ==
  [streak |-> calculate_streak_ending_on_date(data, end_date),
   longest |-> find_longest_streak(data).length,
   current |-> current_streak(data, today_date).length]

\* Date d, with count 0 or absent and following a day with a positive count, is
\* given the positive count c; the results before and after are recorded.
Extend(d, c) ==
  /\ h_pc = "start"
  /\ c > 0
  /\ dict_get(series, d, 0) = 0
  /\ dict_get(series, d - 1, 0) > 0
  /\ series' = dict_set(series, d, c)
  /\ ext_date' = d
  /\ before' = results_on(series, d - 1, ref_date)
  /\ after' = results_on(dict_set(series, d, c), d, ref_date)
  /\ h_pc' = "extended"
  /\ UNCHANGED << series0, ref_date, streak_results, longest_results >>

\* =========================================================================
\* setup_webhooks.py: runs of the script, one after the other
\* =========================================================================
\* The runs of the script are 1..MaxRuns.
MaxRuns == 2

\* repo.name of the repositories user.get_repos(type='owner') lists, in order.
user_repos == << "alpha", "git-tracker", "beta" >>
TRACKER_REPO == "git-tracker"
WEBHOOK_URL == "https://github-activity-hook.onrender.com/webhook"
\* config.get("url") of a hook that is not ours; None when the config has no url.
OtherUrls == {"https://example.org/hook", "None"}

RepoNames == {user_repos[i] : i \in 1..Len(user_repos)}

VARIABLES
  w_pc,        \* "idle", "loop", "complete", "exit"
  runs,        \* runs of the script started so far
  idx,         \* position of the for loop in user_repos
  hooks,       \* repository name -> the config urls of its hooks, in order
  created,     \* repository name -> hooks the script has stored on it
  invoked,     \* repository name -> calls of repo.create_hook
  visited,     \* repositories the for loop has taken up in this run
  failed       \* repositories whose processing raised in this run

hookVars == << w_pc, runs, idx, hooks, created, invoked, visited, failed >>

\* The hooks a repository may have before the first run.
InitialHooks == {<< >>, << WEBHOOK_URL >>} \cup {<< u >> : u \in OtherUrls}
                  \cup {<< u, WEBHOOK_URL >> : u \in OtherUrls}

HooksInit ==
  /\ w_pc = "idle"
  /\ runs = 0
  /\ idx = 0
  /\ hooks \in [RepoNames -> InitialHooks]
  /\ created = [r \in RepoNames |-> 0]
  /\ invoked = [r \in RepoNames |-> 0]
  /\ visited = {}
  /\ failed = {}

HooksIdle ==
  /\ w_pc = "off"
  /\ runs = 0
  /\ idx = 0
  /\ hooks = [r \in RepoNames |-> << >>]
  /\ created = [r \in RepoNames |-> 0]
  /\ invoked = [r \in RepoNames |-> 0]
  /\ visited = {}
  /\ failed = {}

\* A check that never finds the hook.
already_hooked_never(hs) == FALSE

\* any(h.config.get("url") == WEBHOOK_URL for h in hooks)
already_hooked(hs) == \E i \in 1..Len(hs) : hs[i] = WEBHOOK_URL

\* repo.name == TRACKER_REPO
is_tracker(name) == name = TRACKER_REPO

\* Lines 25-45: authentication and the listing succeed; the loop starts.
StartRun ==
  /\ w_pc \in {"idle", "complete", "exit"}
  /\ runs < MaxRuns
  /\ runs' = runs + 1
  /\ idx' = 1
  /\ visited' = {}
  /\ failed' = {}
  /\ w_pc' = "loop"
  /\ UNCHANGED << hooks, created, invoked >>

\* gh.get_user() or user.get_repos() raises GithubException: exit(1).
StartRunFails ==
  /\ w_pc \in {"idle", "complete", "exit"}
  /\ runs < MaxRuns
  /\ runs' = runs + 1
  /\ idx' = 0
  /\ visited' = {}
  /\ failed' = {}
  /\ w_pc' = "exit"
  /\ UNCHANGED << hooks, created, invoked >>

repo == user_repos[idx]

InLoop == w_pc = "loop" /\ idx <= Len(user_repos)

NextRepo ==
  /\ idx' = idx + 1
  /\ visited' = visited \cup {repo}
  /\ UNCHANGED << w_pc, runs >>

\* if repo.name == TRACKER_REPO: continue
SkipTracker ==
  /\ InLoop
  /\ is_tracker(repo)
  /\ NextRepo
  /\ UNCHANGED << hooks, created, invoked, failed >>

\* repo.get_hooks(), or the iteration over it, raises; either except clause.
GetHooksFails ==
  /\ InLoop
  /\ ~is_tracker(repo)
  /\ NextRepo
  /\ failed' = failed \cup {repo}
  /\ UNCHANGED << hooks, created, invoked >>

\* if already_hooked: continue
AlreadyHooked ==
  /\ InLoop
  /\ ~is_tracker(repo)
  /\ already_hooked(hooks[repo])
  /\ NextRepo
  /\ UNCHANGED << hooks, created, invoked, failed >>

\* repo.create_hook(...) returns.
CreateHook ==
  /\ InLoop
  /\ ~is_tracker(repo)
  /\ ~already_hooked(hooks[repo])
  /\ hooks' = [hooks EXCEPT ![repo] = Append(@, WEBHOOK_URL)]
  /\ created' = [created EXCEPT ![repo] = @ + 1]
  /\ invoked' = [invoked EXCEPT ![repo] = @ + 1]
  /\ NextRepo
  /\ UNCHANGED failed

\* repo.create_hook(...) raises; the hook was stored (the reply was lost) or not.
CreateHookFails(stored) ==
  /\ InLoop
  /\ ~is_tracker(repo)
  /\ ~already_hooked(hooks[repo])
  /\ hooks' = IF stored THEN [hooks EXCEPT ![repo] = Append(@, WEBHOOK_URL)] ELSE hooks
  /\ created' = IF stored THEN [created EXCEPT ![repo] = @ + 1] ELSE created
  /\ invoked' = [invoked EXCEPT ![repo] = @ + 1]
  /\ NextRepo
  /\ failed' = failed \cup {repo}

\* The loop is exhausted: "Webhook setup process complete."
Complete ==
  /\ w_pc = "loop"
  /\ idx > Len(user_repos)
  /\ w_pc' = "complete"
  /\ UNCHANGED << runs, idx, hooks, created, invoked, visited, failed >>

\* =========================================================================
\* Specifications
\* =========================================================================
vars == << svgVars, harnessVars, hookVars >>

Init == SvgInit /\ HarnessIdle /\ HooksIdle

Next ==
  \/ /\ pc = "fetch"
     /\ \E r \in Responses : FetchRequestException(r)
     /\ UNCHANGED << harnessVars, hookVars >>
  \/ FetchGraphqlErrors /\ UNCHANGED << harnessVars, hookVars >>
  \/ /\ pc = "fetch"
     /\ \E r \in Responses, t \in 0..MaxTotal, d \in SeriesSet : FetchException(r, t, d)
     /\ UNCHANGED << harnessVars, hookVars >>
  \/ /\ pc = "fetch"
     /\ \E t \in 0..MaxTotal, d \in SeriesSet : FetchOk(t, d)
     /\ UNCHANGED << harnessVars, hookVars >>
  \/ Calculate /\ UNCHANGED << harnessVars, hookVars >>
  \/ Render /\ UNCHANGED << harnessVars, hookVars >>

\* A run of generate_svg.py.
Spec == Init /\ [][Next]_vars

StreakInit == SvgIdle /\ HarnessInit /\ HooksIdle

StreakNext ==
  \/ CallStreak /\ UNCHANGED << svgVars, hookVars >>
  \/ CallLongest /\ UNCHANGED << svgVars, hookVars >>
  \/ /\ h_pc = "start"
     /\ \E d \in 0..(MaxDay + 1), c \in Counts : Extend(d, c)
     /\ UNCHANGED << svgVars, hookVars >>

\* The streak operations applied to every series.
SpecStreak == StreakInit /\ [][StreakNext]_vars

WebhookInit == SvgIdle /\ HarnessIdle /\ HooksInit

WebhookNext ==
  \/ StartRun /\ UNCHANGED << svgVars, harnessVars >>
  \/ StartRunFails /\ UNCHANGED << svgVars, harnessVars >>
  \/ SkipTracker /\ UNCHANGED << svgVars, harnessVars >>
  \/ GetHooksFails /\ UNCHANGED << svgVars, harnessVars >>
  \/ AlreadyHooked /\ UNCHANGED << svgVars, harnessVars >>
  \/ CreateHook /\ UNCHANGED << svgVars, harnessVars >>
  \/ (\E stored \in BOOLEAN : CreateHookFails(stored)) /\ UNCHANGED << svgVars, harnessVars >>
  \/ Complete /\ UNCHANGED << svgVars, harnessVars >>

\* Runs of setup_webhooks.py.
SpecWebhooks == WebhookInit /\ [][WebhookNext]_vars

\* =========================================================================
\* Properties
\* =========================================================================
\* The streak definitions of the specification, stated on the series itself.
Positive(data, d) == d \in DOMAIN data /\ data[d] > 0

\* The number of consecutive positive days a, a-1, ... up to the first that is
\* not: a minus the last day at or before a whose count is 0 or absent.
RunEndingOn(data, a) ==
  a - Max({d \in (a - Cardinality(DOMAIN data))..a : ~Positive(data, d)})

\* [s, s+n-1] is a maximal run of positive days.
MaximalRun(data, s, n) ==
  n > 0 /\ ~Positive(data, s + n) /\ RunEndingOn(data, s + n - 1) = n

\* The days on which a maximal run ends.
RunEnds(data) == {a \in DOMAIN data : Positive(data, a) /\ ~Positive(data, a + 1)}

LongestRunLength(data) ==
  IF RunEnds(data) = {} THEN 0 ELSE Max({RunEndingOn(data, a) : a \in RunEnds(data)})

Calculated == pc \in {"render", "done"}

\* The anchor of the current streak: today, else yesterday, else none.
Anchor(data, t) ==
  IF Positive(data, t) THEN t ELSE IF Positive(data, t - 1) THEN t - 1 ELSE None

\* C1: the current streak is the run of positive days ending on the anchor
\* (today if its count is positive, else yesterday if its count is positive);
\* end_date is the anchor and start_date is anchor - (length - 1); with no
\* anchor the length is 0 and no date is set, whatever happened earlier.
C1_CurrentStreakFromAnchor ==
  Calculated =>
    LET a == Anchor(daily_contributions, today) IN
    IF a = None
      THEN /\ current_streak_calc = 0
           /\ current_streak_start_date = None
           /\ current_streak_end_date = None
      ELSE /\ current_streak_calc = RunEndingOn(daily_contributions, a)
           /\ current_streak_end_date = a
           /\ current_streak_start_date = a - (current_streak_calc - 1)

\* A streak of at least two days that ends yesterday, today having count 0 or
\* being absent.
C1_Witness ==
  /\ pc = "done"
  /\ ~Positive(daily_contributions, today)
  /\ current_streak_calc >= 2
  /\ current_streak_end_date = today - 1

\* C2: the longest streak's length is the greatest length of a maximal run of
\* consecutive positive days anywhere in the series; it is 0 with no start
\* and no end date exactly when no date has a positive count.
C2_LongestIsMaximalRun ==
  Calculated =>
    /\ longest_streak_calc = LongestRunLength(daily_contributions)
    /\ (longest_streak_calc = 0 /\ longest_streak_start = None /\ longest_streak_end = None)
         <=> (\A d \in DOMAIN daily_contributions : ~Positive(daily_contributions, d))

\* The longest run has at least two days, is the last run of the series and
\* ends before yesterday.
C2_Witness ==
  /\ pc = "done"
  /\ longest_streak_calc >= 2
  /\ longest_streak_end < today - 1
  /\ current_streak_calc = 0
  /\ \E d \in DOMAIN daily_contributions :
       d < longest_streak_start - 1 /\ Positive(daily_contributions, d)
  /\ \A d \in DOMAIN daily_contributions :
       d > longest_streak_end => ~Positive(daily_contributions, d)

\* C3: among the maximal runs of the greatest length, the one reported is the
\* earliest: it is such a run and every maximal run that ends before it is
\* shorter.
C3_EarliestLongestWins ==
  (Calculated /\ longest_streak_calc > 0) =>
    LET best == LongestRunLength(daily_contributions) IN
    /\ longest_streak_end = longest_streak_start + longest_streak_calc - 1
    /\ MaximalRun(daily_contributions, longest_streak_start, best)
    /\ \A e \in RunEnds(daily_contributions) :
         e < longest_streak_end => RunEndingOn(daily_contributions, e) < best

\* The positive dates are D, D+1, D+5, D+6: two maximal runs of two days.
C3_Witness ==
  /\ pc = "done"
  /\ longest_streak_calc = 2
  /\ MaximalRun(daily_contributions, longest_streak_start + 5, 2)
  /\ Cardinality({d \in DOMAIN daily_contributions : Positive(daily_contributions, d)}) = 4

\* C4: when total_contributions is 0 the current streak has length 0 and no
\* dates, whatever the daily series holds.
C4_ZeroTotalZeroStreak ==
  (Calculated /\ total_contributions = 0) =>
    /\ current_streak_calc = 0
    /\ current_streak_start_date = None
    /\ current_streak_end_date = None

\* A result (length, start, end) is well formed for the series.
WellFormed(data, length, start, end) ==
  /\ (length = 0) <=> (start = None /\ end = None)
  /\ length >= 0
  /\ length > 0 =>
       /\ start # None
       /\ end # None
       /\ end - start = length - 1
       /\ \A d \in start..end : Positive(data, d)

\* C5: for both results, length = 0 iff start and end are both absent; when
\* length > 0, end - start = length - 1 and every date from start to end has
\* a positive count.
C5_StreakResultInvariant ==
  Calculated =>
    /\ WellFormed(daily_contributions, current_streak_calc,
                  current_streak_start_date, current_streak_end_date)
    /\ WellFormed(daily_contributions, longest_streak_calc,
                  longest_streak_start, longest_streak_end)

\* Both streaks are positive and they are different runs.
C5_Witness ==
  /\ pc = "done"
  /\ current_streak_calc >= 2
  /\ longest_streak_calc > current_streak_calc
  /\ longest_streak_end < current_streak_start_date

ZeroStreaks ==
  /\ current_streak_calc = 0
  /\ current_streak_start_date = None
  /\ current_streak_end_date = None
  /\ longest_streak_calc = 0
  /\ longest_streak_start = None
  /\ longest_streak_end = None

AllFiles == {"tracker-light.svg", "tracker-dark.svg"}

\* The series could not be obtained: substitute, compute zero streaks, render.
SubstitutedAndRendered ==
  /\ pc # "exit"
  /\ exit_code = None
  /\ total_contributions = 0
  /\ daily_contributions = EmptyDict
  /\ Calculated => ZeroStreaks
  /\ pc = "done" => files = AllFiles

\* C6 as stated: whenever the series cannot be obtained (request failure, HTTP
\* error, GraphQL errors, unparsable response) the program substitutes the
\* empty series and total 0, computes zero streaks and renders; no fetch
\* failure ends the run before that.
C6_EveryFetchFailureRenders ==
  (response \in Responses \ {"ok"}) => SubstitutedAndRendered

\* C6 amended: GraphQL errors, and any exception of the try block that is not
\* a RequestException, lead to the substitution, zero streaks and the
\* rendering; a RequestException (the request fails, an HTTP error status)
\* ends the run with exit(1) before any streak is calculated or file written.
C6_FallbackUnlessRequestException ==
  /\ handler \in {"errors", "Exception"} => SubstitutedAndRendered
  /\ response \in {"graphql_errors", "malformed"} => handler \in {"errors", "Exception"}
  /\ response \in {"connection_error", "http_error"} => handler = "RequestException"
  /\ handler = "RequestException" =>
       /\ pc = "exit"
       /\ exit_code = 1
       /\ today = None
       /\ files = {}

\* The extraction raised, the fallback ran and both files were written.
C6_Witness ==
  /\ pc = "done"
  /\ response = "malformed"
  /\ handler = "Exception"
  /\ ZeroStreaks
  /\ files = AllFiles

\* C7: giving a positive count to a date d (count 0 or absent) that follows a
\* positive day makes the run ending on d one longer than the run that ended
\* on d - 1, and neither the longest nor the current streak gets shorter.
C7_Monotonicity ==
  h_pc = "extended" =>
    /\ after.streak = before.streak + 1
    /\ after.longest >= before.longest
    /\ after.current >= before.current

\* A run of two days was extended to three and became the current streak.
C7_Witness ==
  /\ h_pc = "extended"
  /\ before.streak = 2
  /\ after.streak = 3
  /\ before.current = 0
  /\ after.current = 3
  /\ after.longest > before.longest

C9_CurrentAtMostLongest ==
  Calculated =>
    /\ current_streak_calc <= longest_streak_calc
    /\ (/\ current_streak_calc = longest_streak_calc
        /\ current_streak_calc > 0
        /\ \A s \in DOMAIN daily_contributions :
             MaximalRun(daily_contributions, s, current_streak_calc)
               => s >= current_streak_start_date)
         => /\ longest_streak_start = current_streak_start_date
            /\ longest_streak_end = current_streak_end_date

\* The current streak is the longest, after an earlier and shorter run.
C9_Witness ==
  /\ pc = "done"
  /\ current_streak_calc = longest_streak_calc
  /\ current_streak_calc >= 2
  /\ longest_streak_start = current_streak_start_date
  /\ \E d \in DOMAIN daily_contributions :
       d < current_streak_start_date /\ Positive(daily_contributions, d)

\* The hooks of repository r whose config url is WEBHOOK_URL.
OurHooks(r) == {i \in 1..Len(hooks[r]) : hooks[r][i] = WEBHOOK_URL}

\* C10: create_hook is called for a repository only if its name is not
\* TRACKER_REPO and none of its hooks has url WEBHOOK_URL; so over the runs at
\* most one hook with WEBHOOK_URL is created per repository and none on the
\* tracker repository; and a failure on one repository does not keep the loop
\* from the repositories after it.
C10_WebhookSetup ==
  /\ [](/\ \A r \in RepoNames :
             /\ created[r] <= 1
             /\ created[r] = 1 => Cardinality(OurHooks(r)) = 1
        /\ created[TRACKER_REPO] = 0
        /\ invoked[TRACKER_REPO] = 0
        /\ w_pc = "loop" => visited = {user_repos[i] : i \in 1..(idx - 1)}
        /\ w_pc = "complete" => visited = RepoNames)
  /\ [][\A r \in RepoNames :
          invoked'[r] > invoked[r] => r # TRACKER_REPO /\ OurHooks(r) = {}]_vars

\* In the second run the first repository failed and the last one, on which
\* create_hook had failed in the first run, got its hook.
C10_Witness ==
  /\ w_pc = "complete"
  /\ runs = 2
  /\ user_repos[1] \in failed
  /\ created[user_repos[3]] = 1
  /\ invoked[user_repos[3]] = 2
  /\ created[user_repos[1]] = 1

====
